---- MODULE Spec2Model ----
(***************************************************************************)
(* Model of app.py: the "Process Files" handler that reads the uploaded    *)
(* pipe-separated TXT files, concatenates them, renumbers "No.", joins an  *)
(* optional Excel lookup on SID, derives "Description", cleans "Account",  *)
(* formats two monetary columns for display and exports to Excel.          *)
(*                                                                         *)
(* A text value is a sequence of one-character strings; a missing value    *)
(* (pandas NaN) is the value NaN.  A DataFrame is a record                 *)
(*   [cols |-> sequence of column names, rows |-> sequence of rows]        *)
(* where a row is a function from the column names to cell values.         *)
(***************************************************************************)
EXTENDS Integers, Sequences, FiniteSets, TLC

VARIABLES
    pc,            \* position of the handler: read, combine, lookup, ...
    uploaded,      \* uploaded_txt_files: the files in upload order
    lookup_file,   \* uploaded_lookup_file
    idx,           \* index of the file the for loop reads next
    combined_df,
    joined_in,     \* the table as it entered the lookup block (history)
    preview_df,
    pre_format,    \* preview_df as it was when display_df was copied (history)
    display_df,
    sheet,         \* what to_excel wrote to sheet 'CombinedData'
    notices,       \* st.error / st.warning calls, in order
    caught,        \* every error an except clause or errors='coerce' swallowed
    norm           \* clean_account applied to a value and to its own result

vars == <<pc, uploaded, lookup_file, idx, combined_df, joined_in, preview_df,
          pre_format, display_df, sheet, notices, caught, norm>>

\* ------------------------------------------------------------------ bounds
MaxFiles == 2
MaxRows == 2
MaxRefRows == 3
MaxStrLen == 10

\* ------------------------------------------------------------------ text
NaN == <<"NaN">>

Digits == <<"0", "1", "2", "3", "4", "5", "6", "7", "8", "9">>
IsDigit(c) == \E i \in 1..10 : Digits[i] = c
DigitVal(c) == (CHOOSE i \in 1..10 : Digits[i] = c) - 1

Lower == <<"a","b","c","d","e","f","g","h","i","j","k","l","m",
           "n","o","p","q","r","s","t","u","v","w","x","y","z">>
UpperL == <<"A","B","C","D","E","F","G","H","I","J","K","L","M",
            "N","O","P","Q","R","S","T","U","V","W","X","Y","Z">>

\* str.upper() on one character
UpChar(c) == IF \E i \in 1..26 : Lower[i] = c
             THEN UpperL[CHOOSE i \in 1..26 : Lower[i] = c]
             ELSE c

\* str.upper()
Upper(s) == [i \in 1..Len(s) |-> UpChar(s[i])]

\* s.startswith(p)
StartsWith(s, p) == Len(s) >= Len(p) /\ SubSeq(s, 1, Len(p)) = p

\* `p in s` for strings: the leftmost-first scan
RECURSIVE ContainsFrom(_, _, _)
ContainsFrom(s, p, i) ==
    IF i + Len(p) - 1 > Len(s) THEN FALSE
    ELSE IF SubSeq(s, i, i + Len(p) - 1) = p THEN TRUE
    ELSE ContainsFrom(s, p, i + 1)

Contains(s, p) == ContainsFrom(s, p, 1)

\* str(v) / astype(str): a missing value becomes the text 'nan'
ToStr(v) == IF v = NaN THEN <<"n", "a", "n">> ELSE v

\* ------------------------------------------------------------- DataFrames
ColNo == "No."
ColSource == "source_file"
ColSidNumber == "SID Number"
ColSid == "SID"
ColAccount == "Account"
ColType == "Transaction Type"
ColDate == "Transaction Date"
ColFee == "Stamp Duty Fee"
ColGross == "Gross Transaction Amount (IDR Equivalent)"
ColDescription == "Description"

Range(s) == {s[i] : i \in 1..Len(s)}

HasCol(df, c) == c \in Range(df.cols)

\* pd.DataFrame()
EmptyFrame == [cols |-> <<>>, rows |-> <<>>]

\* DataFrame.empty
IsEmpty(df) == Len(df.rows) = 0 \/ Len(df.cols) = 0

RECURSIVE Without(_, _)
Without(s, c) ==
    IF s = <<>> THEN <<>>
    ELSE IF Head(s) = c THEN Without(Tail(s), c)
    ELSE <<Head(s)>> \o Without(Tail(s), c)

\* df.drop(columns=[c]) for a column that exists
DropCol(df, c) ==
    LET cs == Without(df.cols, c)
    IN [cols |-> cs,
        rows |-> [i \in 1..Len(df.rows) |-> [k \in Range(cs) |-> df.rows[i][k]]]]

\* df[c] = vals (one value per row): a new column goes last, an old one keeps
\* its place
SetCol(df, c, vals) ==
    LET cs == IF HasCol(df, c) THEN df.cols ELSE Append(df.cols, c)
    IN [cols |-> cs,
        rows |-> [i \in 1..Len(df.rows) |->
                    [k \in Range(cs) |-> IF k = c THEN vals[i] ELSE df.rows[i][k]]]]

\* the columns of b that a lacks, in b's order
RECURSIVE NewCols(_, _)
NewCols(a, b) ==
    IF b = <<>> THEN <<>>
    ELSE IF Head(b) \in Range(a) THEN NewCols(a, Tail(b))
    ELSE <<Head(b)>> \o NewCols(a, Tail(b))

\* pd.concat([a, b], ignore_index=True): rows of a then rows of b, the union of
\* the columns, NaN where a row's frame lacked the column
Concat(a, b) ==
    LET cs == a.cols \o NewCols(a.cols, b.cols)
        widen(df, r) == [k \in Range(cs) |-> IF HasCol(df, k) THEN r[k] ELSE NaN]
    IN [cols |-> cs,
        rows |-> [i \in 1..Len(a.rows) |-> widen(a, a.rows[i])]
                 \o [i \in 1..Len(b.rows) |-> widen(b, b.rows[i])]]

\* ----------------------------------------------------------- sample texts
S1 == <<"S", "1">>
S2 == <<"S", "2">>
S9 == <<"S", "9">>
TSUBSCRIPTION == <<"S", "U", "B", "S", "C", "R", "I", "P", "T", "I", "O", "N">>
TRedemption == <<"R", "e", "d", "e", "m", "p", "t", "i", "o", "n">>
TOTHERXYZ == <<"O", "T", "H", "E", "R", "X", "Y", "Z">>
D20240305 == <<"2", "0", "2", "4", "0", "3", "0", "5">>
DABCDEFGH == <<"A", "B", "C", "D", "E", "F", "G", "H">>
D20240230 == <<"2", "0", "2", "4", "0", "2", "3", "0">>
N10000 == <<"1", "0", "0", "0", "0">>
Nabc == <<"a", "b", "c">>
N1200000p5 == <<"1", "2", "0", "0", "0", "0", "0", ".", "5">>
N1200000 == <<"1", "2", "0", "0", "0", "0", "0">>
N1234p567 == <<"1", "2", "3", "4", ".", "5", "6", "7">>
N5p00 == <<"5", ".", "0", "0">>
Tsubscription == <<"s", "u", "b", "s", "c", "r", "i", "p", "t", "i", "o", "n">>
TRedempSubscr == <<"R", "E", "D", "E", "M", "P", "/", "S", "U", "B", "S", "C", "R">>
Totherxyz == <<"o", "t", "h", "e", "r", "x", "y", "z">>
Tabc == <<"a", "b", "c">>
TSwitch == <<"S", "w", "i", "t", "c", "h">>
D20240229 == <<"2", "0", "2", "4", "0", "2", "2", "9">>
D20230229 == <<"2", "0", "2", "3", "0", "2", "2", "9">>
D20231301 == <<"2", "0", "2", "3", "1", "3", "0", "1">>
D202403 == <<"2", "0", "2", "4", "0", "3">>
D19991231 == <<"1", "9", "9", "9", "1", "2", "3", "1">>
D19000229 == <<"1", "9", "0", "0", "0", "2", "2", "9">>
D20240305p0 == <<"2", "0", "2", "4", "0", "3", "0", "5", ".", "0">>
AOwn == <<"O", "W", "N">>
AR10000012000000 == <<"R", "1", "0", "0", "0", "0", "0", "1", "2", "0", "0", "0", "0", "0", "0">>
AX9 == <<"X", "9">>
AS1000005 == <<"S", "1", "0", "0", "0", "0", "0", "5">>

\* --------------------------------------------------------- clean_account
Zeros6 == <<"0", "0", "0", "0", "0", "0">>
Zeros4 == <<"0", "0", "0", "0">>
PrefixR == <<"R", "1", "0", "0", "0", "0">>
PrefixS == <<"S", "1", "0", "0", "0", "0">>

\* str.replace(old, new): every non-overlapping occurrence, left to right, the
\* replacement text never scanned again
RECURSIVE Replace(_, _, _)
Replace(s, old, new) ==
    IF Len(s) < Len(old) THEN s
    ELSE IF SubSeq(s, 1, Len(old)) = old
         THEN new \o Replace(SubSeq(s, Len(old) + 1, Len(s)), old, new)
    ELSE <<Head(s)>> \o Replace(Tail(s), old, new)

\* clean_account with '00000' written for the replacement text
clean_account_typo(val) ==
    IF val = NaN THEN val
    ELSE LET v1 == Replace(val, Zeros6, <<"0", "0", "0", "0", "0">>)
             v2 == IF StartsWith(v1, PrefixR) THEN <<"R", "1", "0">> \o SubSeq(v1, 7, Len(v1)) ELSE v1
             v3 == IF StartsWith(v2, PrefixS) THEN <<"S", "1", "0">> \o SubSeq(v2, 7, Len(v2)) ELSE v2
         IN v3

\* clean_account(val); isinstance(val, str) is val # NaN
clean_account(val) ==
    IF val = NaN THEN val
    ELSE LET v1 == Replace(val, Zeros6, Zeros4)
             v2 == IF StartsWith(v1, PrefixR) THEN <<"R", "1", "0">> \o SubSeq(v1, 7, Len(v1)) ELSE v1
             v3 == IF StartsWith(v2, PrefixS) THEN <<"S", "1", "0">> \o SubSeq(v2, 7, Len(v2)) ELSE v2
         IN v3

\* ------------------------------------------------------- build_description
MonthNames ==
    <<<<"J", "a", "n", "u", "a", "r", "y">>, <<"F", "e", "b", "r", "u", "a", "r", "y">>, <<"M", "a", "r", "c", "h">>, <<"A", "p", "r", "i", "l">>,
      <<"M", "a", "y">>, <<"J", "u", "n", "e">>, <<"J", "u", "l", "y">>, <<"A", "u", "g", "u", "s", "t">>,
      <<"S", "e", "p", "t", "e", "m", "b", "e", "r">>, <<"O", "c", "t", "o", "b", "e", "r">>, <<"N", "o", "v", "e", "m", "b", "e", "r">>, <<"D", "e", "c", "e", "m", "b", "e", "r">>>>

IsLeap(y) == (y % 4 = 0 /\ y % 100 # 0) \/ y % 400 = 0

DaysIn(y, m) ==
    IF m = 2 THEN (IF IsLeap(y) THEN 29 ELSE 28)
    ELSE IF m \in {4, 6, 9, 11} THEN 30 ELSE 31

\* the number a run of digits spells
RECURSIVE NumOf(_)
NumOf(ds) == IF ds = <<>> THEN 0 ELSE 10 * NumOf(SubSeq(ds, 1, Len(ds) - 1)) + DigitVal(ds[Len(ds)])

\* pd.to_datetime(date_str, format='%Y%m%d'): four digits of year, two of month,
\* two of day and nothing else, naming a day of the calendar; ok = FALSE is the
\* exception.  (The years tried are years every Timestamp resolution holds.)
to_datetime(date_str) ==
    IF Len(date_str) # 8 \/ \E i \in 1..Len(date_str) : ~IsDigit(date_str[i])
    THEN [ok |-> FALSE, y |-> 0, m |-> 0, d |-> 0]
    ELSE LET y == NumOf(SubSeq(date_str, 1, 4))
             m == NumOf(SubSeq(date_str, 5, 6))
             d == NumOf(SubSeq(date_str, 7, 8))
         IN [ok |-> m \in 1..12 /\ d >= 1 /\ d <= DaysIn(y, m),
             y |-> y, m |-> m, d |-> d]

\* the decimal digits of a natural number
RECURSIVE DigitsOf(_)
DigitsOf(n) == IF n < 10 THEN <<Digits[n + 1]>> ELSE DigitsOf(n \div 10) \o <<Digits[(n % 10) + 1]>>

\* strftime('%d %B %Y')
strftime(t) ==
    (IF t.d < 10 THEN <<"0">> ELSE <<>>) \o DigitsOf(t.d) \o <<" ">>
    \o MonthNames[t.m] \o <<" ">> \o DigitsOf(t.y)

\* the label with the fallback sliced from the upper-cased type
label_of_upper(ttype) ==
    IF Contains(Upper(ttype), <<"S", "U", "B", "S", "C", "R">>) THEN <<"S", "u", "b", "s", "c", "r">>
    ELSE IF Contains(Upper(ttype), <<"R", "E", "D", "E", "M", "P">>) THEN <<"R", "e", "d", "e", "m", "p">>
    ELSE SubSeq(Upper(ttype), 1, IF Len(ttype) < 6 THEN Len(ttype) ELSE 6)

\* the label of build_description
label_of(ttype) ==
    IF Contains(Upper(ttype), <<"S", "U", "B", "S", "C", "R">>) THEN <<"S", "u", "b", "s", "c", "r">>
    ELSE IF Contains(Upper(ttype), <<"R", "E", "D", "E", "M", "P">>) THEN <<"R", "e", "d", "e", "m", "p">>
    ELSE SubSeq(ttype, 1, IF Len(ttype) < 6 THEN Len(ttype) ELSE 6)

\* whether the try block of build_description raises on this row
date_raises(row) == ~to_datetime(ToStr(row[ColDate])).ok

\* build_description(row)
build_description(row) ==
    LET ttype == ToStr(row[ColType])
        date_str == ToStr(row[ColDate])
        date_fmt == to_datetime(date_str)
        date_out == IF date_fmt.ok THEN strftime(date_fmt) ELSE date_str
    IN <<"M", "a", "t", "e", "r", "a", "i", " ", "-", " ">> \o label_of(ttype) \o <<" ", "a", "t", " ">> \o date_out

\* ------------------------------------------------------------ format_number
\* A number is [nan, neg, ip, fp]: the digits before and after the decimal
\* point, without leading zeros of ip and trailing zeros of fp (the decimal
\* value a short decimal text denotes and repr() of that float prints back).
NumNaN == [nan |-> TRUE, neg |-> FALSE, ip |-> <<>>, fp |-> <<>>]

AllDigits(s) == \A i \in 1..Len(s) : IsDigit(s[i])

RECURSIVE StripLead(_)
StripLead(ds) == IF ds # <<>> /\ Head(ds) = "0" THEN StripLead(Tail(ds)) ELSE ds

RECURSIVE StripTrail(_)
StripTrail(ds) ==
    IF ds # <<>> /\ ds[Len(ds)] = "0" THEN StripTrail(SubSeq(ds, 1, Len(ds) - 1)) ELSE ds

\* where the decimal point is, 0 when there is none
PointAt(s) == IF \E i \in 1..Len(s) : s[i] = "." THEN CHOOSE i \in 1..Len(s) : s[i] = "." ELSE 0

\* pd.to_numeric(cell, errors='coerce') on one cell: an optional sign, digits,
\* an optional point and digits; anything else, and a missing value, is NaN
to_numeric(v) ==
    IF v = NaN \/ v = <<>> THEN NumNaN
    ELSE LET neg == Head(v) = "-"
             body == IF neg THEN Tail(v) ELSE v
             p == PointAt(body)
             ip == IF p = 0 THEN body ELSE SubSeq(body, 1, p - 1)
             fp == IF p = 0 THEN <<>> ELSE SubSeq(body, p + 1, Len(body))
         IN IF AllDigits(ip) /\ AllDigits(fp) /\ Len(ip) + Len(fp) > 0
            THEN [nan |-> FALSE, neg |-> neg, ip |-> StripLead(ip), fp |-> StripTrail(fp)]
            ELSE NumNaN

\* whether errors='coerce' swallowed a parse failure on this cell
coerced(v) == v # NaN /\ to_numeric(v).nan

\* the ',' option of the format specification: groups of three from the right
RECURSIVE Grouped(_)
Grouped(ds) ==
    IF Len(ds) <= 3 THEN ds
    ELSE Grouped(SubSeq(ds, 1, Len(ds) - 3)) \o <<",">> \o SubSeq(ds, Len(ds) - 2, Len(ds))

IntText(ip) == Grouped(IF ip = <<>> THEN <<"0">> ELSE ip)

\* format_number(val) on what to_numeric returned: float(val) never raises on
\* it; nan.is_integer() is False and f"{nan:,}" is 'nan'
format_number(val) ==
    IF val.nan THEN <<"n", "a", "n">>
    ELSE IF val.fp = <<>>
         THEN (IF val.neg /\ val.ip # <<>> THEN <<"-">> ELSE <<>>) \o IntText(val.ip)
    ELSE (IF val.neg THEN <<"-">> ELSE <<>>) \o IntText(val.ip) \o <<".">> \o val.fp


\* ------------------------------------------------------------------ inputs
\* An uploaded TXT file is [ok, df]: ok = FALSE when pd.read_csv raises on it.
\* The files are of four kinds, by header; row i of a kind takes its values
\* from the kind's value lists, so that a file of n rows is a prefix.
TxtHeaders ==
    [full |-> <<ColNo, ColSidNumber, ColType, ColDate, ColFee, ColGross>>,
     acct |-> <<ColSidNumber, ColAccount, ColType>>,
     sid  |-> <<ColNo, ColSid, ColSidNumber, ColDate, ColFee>>,
     bare |-> <<ColType, ColDate, ColGross>>]

TxtKinds == DOMAIN TxtHeaders

\* position of a kind, to shift the value lists between kinds
KindShift(k) == CASE k = "full" -> 0 [] k = "acct" -> 1 [] k = "sid" -> 2 [] OTHER -> 3

NoValues == <<7, 7, 0, 3>>
SidValues == <<S1, S2, S9, NaN>>
TypeValues == <<TSUBSCRIPTION, TRedemption, TOTHERXYZ, NaN>>
DateValues == <<D20240305, DABCDEFGH, D20240230, NaN>>
FeeValues == <<N10000, Nabc, N1200000p5, NaN>>
GrossValues == <<N1200000, N1234p567, N5p00, Nabc>>
AccountValues == <<AOwn, NaN>>

Pick(list, n) == list[((n - 1) % Len(list)) + 1]

TxtCell(k, c, i) ==
    LET n == i + KindShift(k)
    IN CASE c = ColNo -> Pick(NoValues, n)
         [] c = ColSidNumber -> Pick(SidValues, n)
         [] c = ColSid -> Pick(SidValues, n + 1)
         [] c = ColAccount -> Pick(AccountValues, n)
         [] c = ColType -> Pick(TypeValues, n)
         [] c = ColDate -> Pick(DateValues, n)
         [] c = ColFee -> Pick(FeeValues, n)
         [] OTHER -> Pick(GrossValues, n)

TxtFrame(k, n) ==
    [cols |-> TxtHeaders[k],
     rows |-> [i \in 1..n |-> [c \in Range(TxtHeaders[k]) |-> TxtCell(k, c, i)]]]

BadFile == [ok |-> FALSE, df |-> EmptyFrame]

\* a file pd.read_csv raises on, a file of a header line alone, and the files
\* of 1..MaxRows rows of each kind
TxtFiles ==
    {BadFile, [ok |-> TRUE, df |-> TxtFrame("full", 0)]}
    \cup {[ok |-> TRUE, df |-> TxtFrame(k, n)] : k \in TxtKinds, n \in 1..MaxRows}

Uploads == UNION {[1..n -> TxtFiles] : n \in 1..MaxFiles}

\* The lookup upload: none, a file pd.read_excel raises on, a sheet without an
\* 'Account' column, or a sheet with 'SID' and 'Account' whose rows are a
\* prefix of RefRows (a repeated SID, a missing SID, a missing Account).
RefRows ==
    <<[SID |-> S1, Account |-> AR10000012000000],
      [SID |-> S1, Account |-> AX9],
      [SID |-> NaN, Account |-> AS1000005],
      [SID |-> S2, Account |-> NaN]>>

RefFrame(n) ==
    [cols |-> <<ColSid, ColAccount>>,
     rows |-> [i \in 1..n |-> Pick(RefRows, i)]]

NoAccountFrame ==
    [cols |-> <<ColSid, "Name">>,
     rows |-> <<[SID |-> S1, Name |-> AX9]>>]

LookupFiles ==
    {[kind |-> "none", df |-> EmptyFrame],
     [kind |-> "unreadable", df |-> EmptyFrame],
     [kind |-> "sheet", df |-> NoAccountFrame]}
    \cup {[kind |-> "sheet", df |-> RefFrame(n)] : n \in 1..MaxRefRows}


\* ------------------------------------------------------------ lookup join
\* lookup_df.drop_duplicates(subset='SID'): the first row of each SID value is
\* kept (two missing SIDs count as equal)
RECURSIVE DropDuplicateRows(_, _)
DropDuplicateRows(rows, seen) ==
    IF rows = <<>> THEN <<>>
    ELSE IF Head(rows)[ColSid] \in seen THEN DropDuplicateRows(Tail(rows), seen)
    ELSE <<Head(rows)>> \o DropDuplicateRows(Tail(rows), seen \cup {Head(rows)[ColSid]})

drop_duplicates(df) == [cols |-> df.cols, rows |-> DropDuplicateRows(df.rows, {})]

\* df[c] = df[c].astype(str)
AsTypeStr(df, c) == SetCol(df, c, [i \in 1..Len(df.rows) |-> ToStr(df.rows[i][c])])

\* lookup_df[['SID', 'Account']]
RefPart(df) ==
    [cols |-> <<ColSid, ColAccount>>,
     rows |-> [i \in 1..Len(df.rows) |-> [k \in {ColSid, ColAccount} |-> df.rows[i][k]]]]

\* validate='many_to_one': the keys of the right side are unique
KeysUnique(right) ==
    \A i, j \in 1..Len(right.rows) :
        right.rows[i][ColSid] = right.rows[j][ColSid] => i = j

\* a column name both sides have gets the suffix of its side
Suffixed(c, other, suffix) == IF c \in Range(other) THEN c \o suffix ELSE c

\* left.merge(right, how='left', left_on='SID Number', right_on='SID'), the
\* right keys unique: every left row once, in order, with the columns of the
\* right row whose SID equals its 'SID Number', or NaN in them
Merge(left, right) ==
    LET lcols == [p \in 1..Len(left.cols) |-> Suffixed(left.cols[p], right.cols, "_x")]
        rcols == [p \in 1..Len(right.cols) |-> Suffixed(right.cols[p], left.cols, "_y")]
        cs == lcols \o rcols
        hits(r) == {j \in 1..Len(right.rows) : right.rows[j][ColSid] = r[ColSidNumber]}
        cell(r, p) ==
            IF p <= Len(lcols) THEN r[left.cols[p]]
            ELSE IF hits(r) = {} THEN NaN
            ELSE right.rows[CHOOSE j \in hits(r) : TRUE][right.cols[p - Len(lcols)]]
    IN [cols |-> cs,
        rows |-> [i \in 1..Len(left.rows) |->
                    [k \in Range(cs) |->
                        cell(left.rows[i], CHOOSE p \in 1..Len(cs) : cs[p] = k)]]]

\* The try block of the lookup, lines 53-65, on a sheet that was read: the
\* table it leaves in combined_df and whether it raised or warned.
LookupBlock(cdf, ldf) ==
    IF ~(HasCol(ldf, ColSid) /\ HasCol(ldf, ColAccount))
    THEN [df |-> cdf, raised |-> FALSE, warned |-> TRUE]
    ELSE IF ~HasCol(cdf, ColSidNumber)
    THEN [df |-> cdf, raised |-> TRUE, warned |-> FALSE]                \* KeyError, line 56
    ELSE LET left == AsTypeStr(cdf, ColSidNumber)
             right == RefPart(AsTypeStr(drop_duplicates(ldf), ColSid))
             merged == Merge(left, right)
         IN IF ~KeysUnique(right)
            THEN [df |-> left, raised |-> TRUE, warned |-> FALSE]       \* MergeError
            ELSE IF ~HasCol(merged, ColSid)
            THEN [df |-> merged, raised |-> TRUE, warned |-> FALSE]     \* KeyError, line 65
            ELSE [df |-> DropCol(merged, ColSid), raised |-> FALSE, warned |-> FALSE]

\* ----------------------------------------------------------------- stages
Notice(level, stage, at) == [level |-> level, stage |-> stage, at |-> at]
Caught(stage, at, col) == [stage |-> stage, at |-> at, col |-> col]

\* the file's frame put in front of the table instead of behind it
ReadOkInFront(cdf, df, name) ==
    Concat(SetCol(df, ColSource, [i \in 1..Len(df.rows) |-> name]), cdf)

\* lines 35-37: a file that was read is tagged and appended
ReadOk(cdf, df, name) ==
    Concat(cdf, SetCol(df, ColSource, [i \in 1..Len(df.rows) |-> name]))

\* the numbering started at 0, range(len(combined_df))
RenumberFromZero(cdf) ==
    LET a == IF HasCol(cdf, ColSource) THEN DropCol(cdf, ColSource) ELSE cdf
        b == IF HasCol(a, ColNo) THEN DropCol(a, ColNo) ELSE a
    IN [cols |-> <<ColNo>> \o b.cols,
        rows |-> [i \in 1..Len(b.rows) |->
                    [k \in {ColNo} \cup Range(b.cols) |-> IF k = ColNo THEN i - 1 ELSE b.rows[i][k]]]]

\* lines 42-48
Renumber(cdf) ==
    LET a == IF HasCol(cdf, ColSource) THEN DropCol(cdf, ColSource) ELSE cdf
        b == IF HasCol(a, ColNo) THEN DropCol(a, ColNo) ELSE a
    IN [cols |-> <<ColNo>> \o b.cols,
        rows |-> [i \in 1..Len(b.rows) |->
                    [k \in {ColNo} \cup Range(b.cols) |-> IF k = ColNo THEN i ELSE b.rows[i][k]]]]

\* lines 74-91
AddDescription(df) ==
    IF HasCol(df, ColType) /\ HasCol(df, ColDate)
    THEN SetCol(df, ColDescription, [i \in 1..Len(df.rows) |-> build_description(df.rows[i])])
    ELSE df

\* lines 94-104
CleanAccounts(df) ==
    IF HasCol(df, ColAccount)
    THEN SetCol(df, ColAccount, [i \in 1..Len(df.rows) |-> clean_account(df.rows[i][ColAccount])])
    ELSE df

MoneyCols == <<ColFee, ColGross>>

\* lines 119-120 for one column
FormatCol(df, c) ==
    IF HasCol(df, c)
    THEN SetCol(df, c, [i \in 1..Len(df.rows) |-> format_number(to_numeric(df.rows[i][c]))])
    ELSE df

\* lines 117-120
FormatMoney(df) == FormatCol(FormatCol(df, MoneyCols[1]), MoneyCols[2])

\* display_df = preview_df.copy()
DisplayCopy(df) == df

\* the display copy handed to to_excel
ExportDisplay(preview, display) == display

\* the frame line 128 hands to to_excel
ExportFrame(preview, display) == preview

\* len(str(value)) of a cell of column c ('No.' holds integers)
CellLen(c, v) == IF c = ColNo THEN Len(DigitsOf(v)) ELSE Len(ToStr(v))

Max(a, b) == IF a >= b THEN a ELSE b

RECURSIVE MaxCellLen(_, _, _)
MaxCellLen(df, c, i) ==
    IF i = 0 THEN 0 ELSE Max(CellLen(c, df.rows[i][c]), MaxCellLen(df, c, i - 1))

\* lines 132-139: the set_column call of each column
ColumnSettings(df) ==
    [p \in 1..Len(df.cols) |->
        IF df.cols[p] \in Range(MoneyCols)
        THEN [width |-> 20, num_format |-> "#,##0.00"]
        ELSE [width |-> Max(MaxCellLen(df, df.cols[p], Len(df.rows)), Len(df.cols[p])) + 2,
              num_format |-> ""]]

NoSheet == [written |-> FALSE, name |-> "", df |-> EmptyFrame, columns |-> <<>>]

NormIdle == [step |-> 0, x |-> <<>>, once |-> <<>>, twice |-> <<>>]

\* ------------------------------------------------------------------ actions
\* The state as "Process Files" is pressed with some files uploaded (line 31).
Init ==
    /\ uploaded \in Uploads
    /\ lookup_file \in LookupFiles
    /\ pc = "read"
    /\ idx = 1
    /\ combined_df = EmptyFrame
    /\ joined_in = EmptyFrame
    /\ preview_df = EmptyFrame
    /\ pre_format = EmptyFrame
    /\ display_df = EmptyFrame
    /\ sheet = NoSheet
    /\ notices = <<>>
    /\ caught = {}
    /\ norm = NormIdle

\* One turn of the for loop, lines 33-39.
ReadFile ==
    /\ pc = "read"
    /\ LET file == uploaded[idx]
       IN IF file.ok
          THEN /\ combined_df' = ReadOk(combined_df, file.df, idx)
               /\ UNCHANGED <<notices, caught>>
          ELSE /\ notices' = Append(notices, Notice("error", "read", idx))
               /\ caught' = caught \cup {Caught("read", idx, "")}
               /\ UNCHANGED combined_df
    /\ idx' = idx + 1
    /\ pc' = IF idx = Len(uploaded) THEN "combine" ELSE "read"
    /\ UNCHANGED <<uploaded, lookup_file, joined_in, preview_df, pre_format,
                   display_df, sheet, norm>>

\* Lines 41-48: nothing more happens on an empty table.
Combine ==
    /\ pc = "combine"
    /\ IF IsEmpty(combined_df)
       THEN pc' = "stopped" /\ UNCHANGED combined_df
       ELSE pc' = "lookup" /\ combined_df' = Renumber(combined_df)
    /\ UNCHANGED <<uploaded, lookup_file, idx, joined_in, preview_df, pre_format,
                   display_df, sheet, notices, caught, norm>>

\* Lines 51-69.
Lookup ==
    /\ pc = "lookup"
    /\ joined_in' = combined_df
    /\ IF lookup_file.kind = "none"
       THEN UNCHANGED <<combined_df, notices, caught>>
       ELSE IF lookup_file.kind = "unreadable"
       THEN /\ notices' = Append(notices, Notice("error", "lookup", 0))
            /\ caught' = caught \cup {Caught("lookup", 0, "")}
            /\ UNCHANGED combined_df
       ELSE LET out == LookupBlock(combined_df, lookup_file.df)
            IN /\ combined_df' = out.df
               /\ notices' = IF out.raised THEN Append(notices, Notice("error", "lookup", 0))
                             ELSE IF out.warned THEN Append(notices, Notice("warning", "lookup", 0))
                             ELSE notices
               /\ caught' = IF out.raised THEN caught \cup {Caught("lookup", 0, "")} ELSE caught
    /\ pc' = "derive"
    /\ UNCHANGED <<uploaded, lookup_file, idx, preview_df, pre_format, display_df,
                   sheet, norm>>

\* Lines 71-91: the bare except of build_description reports nothing.
Derive ==
    /\ pc = "derive"
    /\ preview_df' = AddDescription(combined_df)
    /\ caught' = caught \cup
          (IF HasCol(combined_df, ColType) /\ HasCol(combined_df, ColDate)
           THEN {Caught("derive", i, ColDate) :
                    i \in {j \in 1..Len(combined_df.rows) : date_raises(combined_df.rows[j])}}
           ELSE {})
    /\ pc' = "normalize"
    /\ UNCHANGED <<uploaded, lookup_file, idx, combined_df, joined_in, pre_format,
                   display_df, sheet, notices, norm>>

\* Lines 94-104.
Normalize ==
    /\ pc = "normalize"
    /\ preview_df' = CleanAccounts(preview_df)
    /\ pc' = "format"
    /\ UNCHANGED <<uploaded, lookup_file, idx, combined_df, joined_in, pre_format,
                   display_df, sheet, notices, caught, norm>>

\* Lines 106-123: errors='coerce' reports nothing.
Format ==
    /\ pc = "format"
    /\ pre_format' = preview_df
    /\ display_df' = FormatMoney(DisplayCopy(preview_df))
    /\ caught' = caught \cup
          {Caught("format", i, MoneyCols[p]) :
              <<i, p>> \in {q \in (1..Len(preview_df.rows)) \X (1..2) :
                              /\ HasCol(preview_df, MoneyCols[q[2]])
                              /\ coerced(preview_df.rows[q[1]][MoneyCols[q[2]]])}}
    /\ pc' = "export"
    /\ UNCHANGED <<uploaded, lookup_file, idx, combined_df, joined_in, preview_df,
                   sheet, notices, norm>>

\* Lines 126-147.
Export ==
    /\ pc = "export"
    /\ LET df == ExportFrame(preview_df, display_df)
       IN sheet' = [written |-> TRUE, name |-> "CombinedData", df |-> df,
                    columns |-> ColumnSettings(df)]
    /\ pc' = "done"
    /\ UNCHANGED <<uploaded, lookup_file, idx, combined_df, joined_in, preview_df,
                   pre_format, display_df, notices, caught, norm>>

Next == ReadFile \/ Combine \/ Lookup \/ Derive \/ Normalize \/ Format \/ Export

Spec == Init /\ [][Next]_vars

\* ------------------------------------------- clean_account applied twice
\* The values clean_account is tried on: nothing, 'R' or 'S' in front of a
\* text of '0' and '1' of up to MaxStrLen characters ('1' stands for every
\* character that is not '0'; 'R' and 'S' matter in front alone).
RECURSIVE Texts01(_)
Texts01(n) ==
    IF n = 0 THEN {<<>>}
    ELSE LET shorter == Texts01(n - 1)
         IN shorter \cup {Append(t, c) : t \in {u \in shorter : Len(u) = n - 1}, c \in {"0", "1"}}

AccountTexts == {p \o b : p \in {<<>>, <<"R">>, <<"S">>}, b \in Texts01(MaxStrLen)}

Idle ==
    /\ uploaded = <<>>
    /\ lookup_file = [kind |-> "none", df |-> EmptyFrame]
    /\ idx = 1
    /\ joined_in = EmptyFrame
    /\ pre_format = EmptyFrame
    /\ display_df = EmptyFrame
    /\ sheet = NoSheet
    /\ notices = <<>>
    /\ caught = {}

NormInit ==
    /\ Idle
    /\ pc = "idle"
    /\ combined_df = EmptyFrame
    /\ preview_df = EmptyFrame
    /\ norm \in {[step |-> 0, x |-> t, once |-> <<>>, twice |-> <<>>] : t \in AccountTexts}

NormOnce ==
    /\ norm.step = 0
    /\ pc = "idle"
    /\ norm' = [norm EXCEPT !.step = 1, !.once = clean_account(norm.x)]
    /\ UNCHANGED <<pc, uploaded, lookup_file, idx, combined_df, joined_in, preview_df,
                   pre_format, display_df, sheet, notices, caught>>

NormTwice ==
    /\ norm.step = 1
    /\ norm' = [norm EXCEPT !.step = 2, !.twice = clean_account(norm.once)]
    /\ UNCHANGED <<pc, uploaded, lookup_file, idx, combined_df, joined_in, preview_df,
                   pre_format, display_df, sheet, notices, caught>>

NormNext == NormOnce \/ NormTwice

SpecNorm == NormInit /\ [][NormNext]_vars

\* ------------------------------------------- build_description on its own
\* The tables the description step is tried on: one row, with or without each
\* of the two columns it reads, the type and the date from the samples.
TypeSamples ==
    {TSUBSCRIPTION, Tsubscription, TRedemption, TRedempSubscr, TOTHERXYZ, Totherxyz,
     Tabc, TSwitch, NaN}

DateSamples ==
    {D20240305, D20240229, D20230229, D20240230, D20231301, D202403, D19991231,
     D19000229, D20240305p0, DABCDEFGH, NaN}

DeriveHeaders ==
    {<<ColNo, ColType, ColDate>>,
     <<ColNo, ColType, ColFee>>,
     <<ColNo, ColDate, ColAccount>>,
     <<ColNo, ColDescription, ColType, ColDate, ColAccount>>}

DeriveFrame(h, t, d) ==
    [cols |-> h,
     rows |-> <<[c \in Range(h) |->
                   CASE c = ColNo -> 1
                     [] c = ColType -> t
                     [] c = ColDate -> d
                     [] c = ColFee -> N10000
                     [] c = ColDescription -> AOwn
                     [] OTHER -> AX9]>>]

DeriveInit ==
    /\ Idle
    /\ pc = "derive"
    /\ combined_df \in {DeriveFrame(h, t, d) : h \in DeriveHeaders, t \in TypeSamples, d \in DateSamples}
    /\ preview_df = EmptyFrame
    /\ norm = NormIdle

SpecDerive == DeriveInit /\ [][Derive]_vars

\* ------------------------------------------------------------------ claims
AfterCombine == {"lookup", "derive", "normalize", "format", "export", "done"}
AfterDerive == {"normalize", "format", "export", "done"}

RECURSIVE RowsBefore(_, _)
\* the rows the files before position p contributed
RowsBefore(files, p) ==
    IF p <= 1 THEN 0
    ELSE RowsBefore(files, p - 1)
         + (IF files[p - 1].ok THEN Len(files[p - 1].df.rows) ELSE 0)

TotalRows(files) == RowsBefore(files, Len(files) + 1)

NoIsOneToN(df) ==
    /\ HasCol(df, ColNo)
    /\ Len(df.rows) = TotalRows(uploaded)
    /\ \A i \in 1..Len(df.rows) : df.rows[i][ColNo] = i

\* C1: once the combine step has run on a non-empty table, the 'No.' column is
\* 1, 2, ..., N in row order, N the number of rows the uploaded files hold,
\* whatever 'No.' values the files had; and so it is in the final table, after
\* the lookup join, the description and the account cleaning, and in the sheet.
C1_NoIsOneToN ==
    /\ pc \in AfterCombine => NoIsOneToN(combined_df)
    /\ pc \in AfterDerive => NoIsOneToN(preview_df)
    /\ pc = "done" => NoIsOneToN(sheet.df)

\* C1's case: two files with 'No.' values of their own (7, 7, ...), joined
\* against a lookup sheet with a repeated SID, processed to the end.
C1_Witness ==
    /\ pc = "done"
    /\ Len(uploaded) = 2
    /\ \A p \in 1..2 : uploaded[p].ok /\ HasCol(uploaded[p].df, ColNo)
                       /\ Len(uploaded[p].df.rows) = 2
    /\ uploaded[1].df.rows[1][ColNo] = 7
    /\ uploaded[1].df.rows[2][ColNo] = 7
    /\ lookup_file.kind = "sheet"
    /\ Len(lookup_file.df.rows) >= 2
    /\ HasCol(preview_df, ColAccount)

\* the cells of file p's row i are the cells of row RowsBefore + i of df
FileRowsIn(df, p) ==
    LET f == uploaded[p].df
    IN \A i \in 1..Len(f.rows) :
          \A c \in Range(f.cols) \ {ColNo} :
              df.rows[RowsBefore(uploaded, p) + i][c] = f.rows[i][c]

FailedFiles == {p \in 1..Len(uploaded) : ~uploaded[p].ok}

ReadNotices == SelectSeq(notices, LAMBDA n : n.stage = "read")

\* C2: the combined table's rows are the rows of the files that parsed, in
\* upload order and in row order within a file; a file that fails to parse adds
\* no row and exactly one error notice naming it, and the files after it are
\* still read and appended.
C2_RowsOfParsedFiles ==
    pc \in {"combine", "lookup"} =>
        /\ Len(combined_df.rows) = TotalRows(uploaded)
        /\ \A p \in 1..Len(uploaded) : uploaded[p].ok => FileRowsIn(combined_df, p)
        /\ pc = "combine" =>
              \A p \in 1..Len(uploaded) : uploaded[p].ok =>
                  \A i \in 1..Len(uploaded[p].df.rows) :
                      combined_df.rows[RowsBefore(uploaded, p) + i][ColSource] = p
        /\ Len(ReadNotices) = Cardinality(FailedFiles)
        /\ \A k \in 1..Len(ReadNotices) :
              /\ ReadNotices[k].level = "error"
              /\ ReadNotices[k].at \in FailedFiles
              /\ \A m \in 1..Len(ReadNotices) : k < m => ReadNotices[k].at < ReadNotices[m].at

\* C2's case: the first file fails to parse and the second, of two rows and
\* another header than a third would have, is still appended.
C2_Witness ==
    /\ pc = "combine"
    /\ Len(uploaded) = 2
    /\ ~uploaded[1].ok
    /\ uploaded[2].ok
    /\ Len(uploaded[2].df.rows) = 2
    /\ Len(combined_df.rows) = 2
    /\ Len(notices) = 1

RefUsable == lookup_file.kind = "sheet" /\ HasCol(lookup_file.df, ColSid)
             /\ HasCol(lookup_file.df, ColAccount)

\* the Account of the first reference row whose SID text is sid, NaN when none
FirstAccount(sid) ==
    LET ref == lookup_file.df.rows
        hits == {j \in 1..Len(ref) : ToStr(ref[j][ColSid]) = sid}
    IN IF hits = {} THEN NaN
       ELSE ref[CHOOSE j \in hits : \A k \in hits : j <= k][ColAccount]

\* C3: when the join runs with a reference that has 'SID' and 'Account', the
\* output has the rows of the input, in order, each with 'Account' the Account
\* of the first reference row whose SID text equals the row's 'SID Number'
\* text, and null when there is none.
C3_AccountOfFirstMatch ==
    (pc = "derive" /\ RefUsable /\ HasCol(joined_in, ColSidNumber)) =>
        /\ Len(combined_df.rows) = Len(joined_in.rows)
        /\ HasCol(combined_df, ColAccount)
        /\ \A i \in 1..Len(combined_df.rows) :
              /\ combined_df.rows[i][ColNo] = joined_in.rows[i][ColNo]
              /\ combined_df.rows[i][ColAccount]
                    = FirstAccount(ToStr(joined_in.rows[i][ColSidNumber]))

LookupNotices == SelectSeq(notices, LAMBDA n : n.stage = "lookup")

JoinFailed ==
    /\ lookup_file.kind # "none"
    /\ \/ ~RefUsable
       \/ ~HasCol(joined_in, ColSidNumber)
       \/ \E e \in caught : e.stage = "lookup"

\* C4: when the join step fails or cannot run, a notice is reported and the
\* later stages get the table that entered the join step: the same rows and
\* the same columns, no 'Account' and no other column added.
C4_FailedJoinLeavesTable ==
    (pc = "derive" /\ JoinFailed) =>
        /\ Len(LookupNotices) >= 1
        /\ combined_df.cols = joined_in.cols
        /\ combined_df = joined_in

MoneyCells(df) ==
    {q \in (1..Len(df.rows)) \X (1..2) : HasCol(df, MoneyCols[q[2]])}

\* C6: a numeric cell of a monetary column is displayed as the comma-grouped
\* integer with no decimal point when integral, and with exactly two digits
\* after the decimal point when not (1200000.5 as '1,200,000.50').
C6_TwoDecimals ==
    pc = "done" =>
        \A q \in MoneyCells(preview_df) :
            LET raw == preview_df.rows[q[1]][MoneyCols[q[2]]]
                shown == display_df.rows[q[1]][MoneyCols[q[2]]]
                val == to_numeric(raw)
            IN ~val.nan =>
                  /\ val.fp = <<>> => PointAt(shown) = 0
                  /\ val.fp # <<>> => (PointAt(shown) > 0 /\ PointAt(shown) = Len(shown) - 2)
                  /\ raw = N1200000 => shown = <<"1", ",", "2", "0", "0", ",", "0", "0", "0">>
                  /\ raw = N1200000p5 => shown = <<"1", ",", "2", "0", "0", ",", "0", "0", "0", ".", "5", "0">>

\* C7: a cell of a monetary column that is non-numeric, unparsable or missing
\* is displayed as the empty string.
C7_EmptyForNonNumeric ==
    pc = "done" =>
        \A q \in MoneyCells(preview_df) :
            to_numeric(preview_df.rows[q[1]][MoneyCols[q[2]]]).nan
                => display_df.rows[q[1]][MoneyCols[q[2]]] = <<>>

\* C8: formatting for display leaves the export-path table as it was: every
\* cell of preview_df is what it was before the formatter ran, the sheet
\* 'CombinedData' holds preview_df and not the display copy, and the display
\* copy differs from it in the monetary columns alone.
C8_ExportIsUnformatted ==
    /\ pc \in {"export", "done"} =>
          /\ preview_df = pre_format
          /\ display_df.cols = preview_df.cols
          /\ \A i \in 1..Len(preview_df.rows) :
                \A c \in Range(preview_df.cols) \ Range(MoneyCols) :
                    display_df.rows[i][c] = preview_df.rows[i][c]
    /\ pc = "done" =>
          /\ sheet.written
          /\ sheet.name = "CombinedData"
          /\ sheet.df = pre_format

\* C8's case: the run is over and the formatter rewrote a monetary cell of the
\* display copy (1200000 shown as '1,200,000').
C8_Witness ==
    /\ pc = "done"
    /\ HasCol(preview_df, ColGross)
    /\ \E i \in 1..Len(preview_df.rows) :
          /\ preview_df.rows[i][ColGross] = N1200000
          /\ display_df.rows[i][ColGross] = <<"1", ",", "2", "0", "0", ",", "0", "0", "0">>

\* C10: every error that was caught (a file that failed to parse, a failed
\* lookup, a date that failed to parse, a value that failed numeric coercion)
\* has a notice of its stage, and of its file, by the end of the run.
C10_EveryCaughtErrorNoticed ==
    pc \in {"done", "stopped"} =>
        \A e \in caught :
            \E k \in 1..Len(notices) :
                /\ notices[k].stage = e.stage
                /\ e.stage = "read" => notices[k].at = e.at

Zeros8 == <<"0", "0", "0", "0", "0", "0", "0", "0">>

\* C5 as stated: clean_account is idempotent on every text.
C5_Idempotent == norm.step = 2 => norm.twice = norm.once

\* C5 as amended: clean_account is idempotent on every text that holds no run
\* of eight or more zeros.
C5_IdempotentBelowEightZeros ==
    (norm.step = 2 /\ ~Contains(norm.x, Zeros8)) => norm.twice = norm.once

\* C5's case: a text with a run of seven zeros behind 'R1', on which both the
\* replacement and the prefix rewrite act, cleaned twice.
C5_Witness ==
    /\ norm.step = 2
    /\ norm.x = <<"R", "1", "0", "0", "0", "0", "0", "0", "0", "1", "0">>
    /\ norm.once = <<"R", "1", "0", "0", "1", "0">>
    /\ norm.twice = norm.once

\* the type text holds word w in some letter case
HoldsWord(t, w) ==
    \E k \in 1..Len(t) :
        /\ k + Len(w) - 1 <= Len(t)
        /\ \A j \in 1..Len(w) : UpChar(t[k + j - 1]) = w[j]

ExpectedLabel(t) ==
    CASE HoldsWord(t, <<"S", "U", "B", "S", "C", "R">>) -> <<"S", "u", "b", "s", "c", "r">>
      [] ~HoldsWord(t, <<"S", "U", "B", "S", "C", "R">>) /\ HoldsWord(t, <<"R", "E", "D", "E", "M", "P">>) -> <<"R", "e", "d", "e", "m", "p">>
      [] OTHER -> [j \in 1..(IF Len(t) < 6 THEN Len(t) ELSE 6) |-> t[j]]

\* the text is YYYYMMDD of a day of the calendar
IsYmd(d) ==
    /\ Len(d) = 8
    /\ \A j \in 1..8 : IsDigit(d[j])
    /\ LET y == NumOf(<<d[1], d[2], d[3], d[4]>>)
           m == NumOf(<<d[5], d[6]>>)
           day == NumOf(<<d[7], d[8]>>)
       IN /\ m >= 1 /\ m <= 12
          /\ day >= 1
          /\ day <= (CASE m = 2 -> (IF IsLeap(y) THEN 29 ELSE 28)
                       [] m \in {4, 6, 9, 11} -> 30
                       [] OTHER -> 31)

ExpectedDate(d) ==
    IF IsYmd(d)
    THEN <<d[7], d[8], " ">> \o MonthNames[NumOf(<<d[5], d[6]>>)] \o <<" ", d[1], d[2], d[3], d[4]>>
    ELSE d

\* C9: the description step adds 'Description' = 'Materai - {label} at {date}'
\* to every row when the table has both 'Transaction Type' and 'Transaction
\* Date', and leaves the table as it is when either is absent; the label is
\* 'Subscr' when the type holds 'SUBSCR' in any letter case, else 'Redemp' when
\* it holds 'REDEMP', else the first six characters of the type as they are;
\* the date is 'DD MonthName YYYY' when the raw date parses as YYYYMMDD and the
\* raw text otherwise; no other column changes.
C9_Description ==
    pc = "normalize" =>
        IF HasCol(combined_df, ColType) /\ HasCol(combined_df, ColDate)
        THEN /\ preview_df.cols = (IF HasCol(combined_df, ColDescription) THEN combined_df.cols
                                   ELSE Append(combined_df.cols, ColDescription))
             /\ Len(preview_df.rows) = Len(combined_df.rows)
             /\ \A i \in 1..Len(combined_df.rows) :
                   /\ preview_df.rows[i][ColDescription]
                         = <<"M", "a", "t", "e", "r", "a", "i", " ", "-", " ">> \o ExpectedLabel(ToStr(combined_df.rows[i][ColType]))
                           \o <<" ", "a", "t", " ">> \o ExpectedDate(ToStr(combined_df.rows[i][ColDate]))
                   /\ \A c \in Range(combined_df.cols) \ {ColDescription} :
                         preview_df.rows[i][c] = combined_df.rows[i][c]
        ELSE preview_df = combined_df

\* C9's case: a row whose type holds both words in mixed case and whose date
\* is 29 February of a leap year, described.
C9_Witness ==
    /\ pc = "normalize"
    /\ Len(combined_df.rows) = 1
    /\ HasCol(combined_df, ColType)
    /\ HasCol(combined_df, ColDate)
    /\ combined_df.rows[1][ColType] = TRedempSubscr
    /\ combined_df.rows[1][ColDate] = D20240229
    /\ preview_df.rows[1][ColDescription] = <<"M", "a", "t", "e", "r", "a", "i", " ", "-", " ", "S", "u", "b", "s", "c", "r", " ", "a", "t", " ", "2", "9", " ", "F", "e", "b", "r", "u", "a", "r", "y", " ", "2", "0", "2", "4">>

====
